---------------------------- MODULE Spec2Model ----------------------------
(***************************************************************************)
(* A model of NejiFinderTuttiClient (src/neji_finder_tutti_client/main.py) *)
(* and TuttiMarketController (market_controller.py).                       *)
(*                                                                         *)
(* One caller coroutine issues the facade's calls one after another; the  *)
(* two tasks that open() gathers run beside it.  The two ducts (the        *)
(* transports of Tutti.works and Tutti.market) and the two servers are the *)
(* environment: they answer each request with any answer the code can      *)
(* receive, and report connection errors whenever they like.               *)
(***************************************************************************)
EXTENDS Integers, Sequences, FiniteSets, TLC

\* ---------------------------------------------------------------- bounds
\* Longest err list a listener collects.
MaxErr == 2
\* Entries the response stream of the watched APS can hold.
MaxStream == 3

\* ----------------------------------------------------------- python values
\* A Python value that may be None, a str (a sequence of characters) or an int.
PyNone == [t |-> "none", s |-> <<>>, n |-> 0]
PyStr(s) == [t |-> "str", s |-> s, n |-> 0]
PyInt(n) == [t |-> "int", s |-> <<>>, n |-> n]
\* A key a dict does not hold.
PyAbsent == [t |-> "absent", s |-> <<>>, n |-> 0]

Digits == <<"0", "1", "2", "3", "4", "5", "6", "7", "8", "9">>
DigitChars == {Digits[i] : i \in 1..10}
DigitVal(c) == (CHOOSE i \in 1..10 : Digits[i] = c) - 1

RECURSIVE StripLeft(_)
StripLeft(s) == IF s /= <<>> /\ Head(s) = " " THEN StripLeft(Tail(s)) ELSE s
RECURSIVE StripRight(_)
StripRight(s) ==
    IF s /= <<>> /\ s[Len(s)] = " " THEN StripRight(SubSeq(s, 1, Len(s) - 1)) ELSE s
Strip(s) == StripRight(StripLeft(s))

\* The digits of a signed literal, its sign taken off.
Unsigned(s) == IF s /= <<>> /\ Head(s) \in {"-", "+"} THEN Tail(s) ELSE s
RECURSIVE DigitsValue(_)
DigitsValue(s) ==
    IF s = <<>> THEN 0 ELSE 10 * DigitsValue(SubSeq(s, 1, Len(s) - 1)) + DigitVal(s[Len(s)])

\* int(x) accepts: a str is a literal when, stripped, it is an optional sign and
\* at least one digit; an int is accepted as it is; None is a TypeError.
IntAccepts(x) ==
    \/ x.t = "int"
    \/ /\ x.t = "str"
       /\ Unsigned(Strip(x.s)) /= <<>>
       /\ \A i \in 1..Len(Unsigned(Strip(x.s))) : Unsigned(Strip(x.s))[i] \in DigitChars
\* int(x) where IntAccepts(x).
IntOf(x) ==
    IF x.t = "int" THEN x.n
    ELSE IF Head(Strip(x.s)) = "-" THEN 0 - DigitsValue(Unsigned(Strip(x.s)))
    ELSE DigitsValue(Unsigned(Strip(x.s)))

\* f'{time}': the decimal digits of a non-negative int.
RECURSIVE FormatInt(_)
FormatInt(n) == IF n < 10 THEN <<Digits[n + 1]>> ELSE Append(FormatInt(n \div 10), Digits[(n % 10) + 1])

\* ------------------------------------------------------------------ sides
Sides == {"works", "market"}
Other(s) == IF s = "works" THEN "market" ELSE "works"
\* The resource name open_works / open_market tag their error with.
ResourceOf(s) == IF s = "works" THEN "Tutti.works" ELSE "Tutti.market"
ResourceTag(s) == ResourceOf(s)
\* The duct open_works / open_market install their on_error on.
ListenerDuctSwapped(s) == Other(s)
ListenerDuct(s) == s

\* A connection event a duct hands to its onerror listener.
ErrStates == {"refused", "reset"}
NoEvent == [source |-> "", state |-> ""]
ErrEvent(d, st) == [source |-> d, state |-> st]

\* An exception; resource and err are NejiFinderTuttiClientConnectionError's.
NoExc == [type |-> "", msg |-> <<>>, resource |-> "", err |-> NoEvent]
Exc(type, msg) == [type |-> type, msg |-> msg, resource |-> "", err |-> NoEvent]
NejiFinderTuttiClientConnectionError(resource, e) ==
    [type |-> "NejiFinderTuttiClientConnectionError", msg |-> <<>>, resource |-> resource, err |-> e]

\* What a call hands back: None, or publish_tasks_to_market's pair.
NoneVal == [kind |-> "None", ngid |-> "", jid |-> ""]
PairVal(ngid, jid) == [kind |-> "tuple", ngid |-> ngid, jid |-> jid]

Running == [status |-> "running", exc |-> NoExc, val |-> NoneVal]
Returned(v) == [status |-> "returned", exc |-> NoExc, val |-> v]
Raised(e) == [status |-> "raised", exc |-> e, val |-> NoneVal]

\* ------------------------------------------------------------------ hosts
HostArgs == {PyNone, PyStr(<<>>), PyStr(<<"h">>), PyStr(<<"h", "/">>)}
\* `if works_host:` - neither None nor the empty string.
Truthy(h) == h.t = "str" /\ h.s /= <<>>
\* if host[-1] == '/': host = host[:-1]
StripSlash(h) == IF h[Len(h)] = "/" THEN SubSeq(h, 1, Len(h) - 1) ELSE h
WsdUrl(h) == StripSlash(h) \o <<"/ducts/wsd">>


\* ------------------------------------------------------------------ state
VARIABLES
    conn,        \* conn[s]: whether the duct of side s is connected
    onerror,     \* onerror[d]: whose on_error closure is connection_listener.onerror of duct d
    err,         \* err[s]: the err list of the running (or last) open_works / open_market
    openPc,      \* openPc[s]: where the open task of side s stands
    openResult,  \* openResult[s]: how the open task of side s ended
    endpoint,    \* endpoint[s]: the URL the duct of side s was last asked to open
    windowErrs,  \* windowErrs[d]: what duct d reported while the open task of d was in its window
    gathered,    \* the tasks the caller's open() is waiting for
    worksToken,  \* self.tutti.account_info['access_token']
    marketToken, \* self.market.access_token ("unset": the attribute does not exist)
    signInDone,  \* signInDone[s]: a sign-in to side s has completed
    pc,          \* the caller: idle, the await it is suspended at, or finished
    op,          \* the facade method the caller is in (or was last in)
    args,        \* its arguments
    outcome,     \* how the call ended
    callSent,    \* the requests this call has sent, in order
    callDone,    \* the answers this call has received, in order
    inflight,    \* requests sent and not yet answered
    loc,         \* publish_tasks_to_market's local variables
    excStep,     \* the step of publish_tasks_to_market in which an exception was raised (0: none)
    handlers,    \* the handlers registered for the watch topic on self.tutti.resource
    subscribed,  \* the server pushes the watched stream's entries to this client
    stream,      \* the response stream of the watched APS on the server
    chan,        \* entries pushed by the server, on their way to the client
    pushed,      \* every entry the server has pushed, in the order it sent them
    delivered    \* the entries handed to handler, in order

connVars == <<conn, onerror, err, openPc, openResult, endpoint, windowErrs, gathered>>
sessionVars == <<worksToken, marketToken, signInDone>>
callVars == <<pc, op, args, outcome, callSent, callDone, inflight, loc, excStep>>
watchVars == <<handlers, subscribed, stream, chan, pushed, delivered>>

\* ------------------------------------------------------------ the caller
NoArgs == [works_host |-> PyNone, market_host |-> PyNone, id |-> "", sync_id |-> "",
           last_watch_id |-> PyNone]
NoAps == [found |-> FALSE, platform_parameter_set_id |-> "", project_name |-> ""]
NoBag == [job_class_id |-> PyAbsent, num_job_assignments_max |-> PyAbsent,
          priority_score |-> PyAbsent, priorityScore |-> PyAbsent]
NoPps == [found |-> FALSE, platform |-> "", parameters |-> NoBag]
NoRes == [success |-> FALSE, body |-> ""]
NoLoc == [aps |-> NoAps, pps |-> NoPps, time |-> 0, nids |-> <<>>, ngid |-> "", res |-> NoRes]

\* The caller is between two calls.
Ready == pc \in {"idle", "finished"}

\* A call begins: a fresh frame.
Enter(name, a) ==
    /\ op' = name
    /\ args' = a
    /\ callDone' = <<>>
    /\ loc' = NoLoc
    /\ excStep' = 0

\* A call ends.
Leave(o) ==
    /\ pc' = "finished"
    /\ outcome' = o

Range(q) == {q[i] : i \in DOMAIN q}
Req(side, event, payload) == [side |-> side, event |-> event, p |-> payload]
Ans(side, event, ok, value) == [side |-> side, event |-> event, ok |-> ok, v |-> value]

HasSent(side, event) ==
    \E i \in DOMAIN callSent : callSent[i].side = side /\ callSent[i].event = event
SentOf(side, event) ==
    callSent[CHOOSE i \in DOMAIN callSent : callSent[i].side = side /\ callSent[i].event = event]
HasAnswer(side, event) ==
    \E i \in DOMAIN callDone : callDone[i].side = side /\ callDone[i].event = event
AnswerOf(side, event) ==
    callDone[CHOOSE i \in DOMAIN callDone : callDone[i].side = side /\ callDone[i].event = event]

\* ------------------------------------------------------------ connection
HostOf(a, s) == IF s = "works" THEN a.works_host ELSE a.market_host

\* open_works / open_market up to their first await: err = [], the listener is
\* installed on the side's duct, the duct is asked to open host + '/ducts/wsd'.
\* The tasks of open() start in the order gather() was given them: works, market.
InstalledBy(d, tasks) ==
    IF "market" \in tasks /\ ListenerDuct("market") = d THEN "market"
    ELSE IF "works" \in tasks /\ ListenerDuct("works") = d THEN "works"
    ELSE onerror[d]

StartTasks(tasks, a) ==
    /\ gathered' = tasks
    /\ openPc' = [s \in Sides |-> IF s \in tasks THEN "opening" ELSE openPc[s]]
    /\ err' = [s \in Sides |-> IF s \in tasks THEN <<>> ELSE err[s]]
    /\ windowErrs' = [s \in Sides |-> IF s \in tasks THEN <<>> ELSE windowErrs[s]]
    /\ openResult' = [s \in Sides |-> IF s \in tasks THEN Running ELSE openResult[s]]
    /\ onerror' = [d \in Sides |-> InstalledBy(d, tasks)]
    /\ endpoint' = [s \in Sides |-> IF s \in tasks THEN WsdUrl(HostOf(a, s).s) ELSE endpoint[s]]
    /\ UNCHANGED conn

\* No open task is running: this model runs one open task per side at a time.
NoOpenTask == \A s \in Sides : openPc[s] \in {"idle", "done"}

\* open(works_host, market_host): a task per host given, gathered.
open(wh, mh) ==
    /\ Ready
    /\ NoOpenTask
    /\ LET a == [NoArgs EXCEPT !.works_host = wh, !.market_host = mh]
           tasks == {s \in Sides : Truthy(HostOf(a, s))}
       IN  /\ Enter("open", a)
           /\ callSent' = <<>>
           /\ StartTasks(tasks, a)
           /\ IF tasks = {}
              THEN Leave(Returned(NoneVal))
              ELSE pc' = "gather" /\ outcome' = Running
    /\ UNCHANGED <<sessionVars, inflight>>
    /\ UNCHANGED watchVars

\* open_works(host) / open_market(host) called by themselves; host[-1] of the
\* empty string is an IndexError.
open_side(s, h) ==
    /\ Ready
    /\ NoOpenTask
    /\ LET a == IF s = "works" THEN [NoArgs EXCEPT !.works_host = PyStr(h)]
                ELSE [NoArgs EXCEPT !.market_host = PyStr(h)]
       IN  /\ Enter(IF s = "works" THEN "open_works" ELSE "open_market", a)
           /\ callSent' = <<>>
           /\ IF h = <<>>
              THEN /\ Leave(Raised(Exc("IndexError", <<"string index out of range">>)))
                   /\ UNCHANGED connVars
              ELSE /\ StartTasks({s}, a)
                   /\ pc' = "gather"
                   /\ outcome' = Running
    /\ UNCHANGED <<sessionVars, inflight>>
    /\ UNCHANGED watchVars

open_works(h) == open_side("works", h)
open_market(h) == open_side("market", h)

\* await self.tutti.open(...) / self.market.open(...) comes back: the duct is
\* connected or it is not; it tells a failure to its listener, not to its caller.
duct_open(s, ok) ==
    /\ openPc[s] = "opening"
    /\ openPc' = [openPc EXCEPT ![s] = "sleeping"]
    /\ conn' = [conn EXCEPT ![s] = IF ok \/ conn[s] = "open" THEN "open" ELSE "closed"]
    /\ UNCHANGED <<onerror, err, openResult, endpoint, windowErrs, gathered>>
    /\ UNCHANGED <<sessionVars, callVars>>
    /\ UNCHANGED watchVars

\* The open task of side s is between the installation of its listener and its
\* look at err after the sleep.
InWindow(s) == openPc[s] \in {"opening", "sleeping"}

\* Duct d reports a connection error: connection_listener.onerror(event), which
\* is on_error of the open call that installed it: err.append(event).
on_error(d, st) ==
    /\ onerror[d] /= "default" \/ InWindow(d)
    /\ onerror[d] /= "default" => Len(err[onerror[d]]) < MaxErr
    /\ InWindow(d) => Len(windowErrs[d]) < MaxErr
    /\ err' = IF onerror[d] = "default" THEN err
              ELSE [err EXCEPT ![onerror[d]] = Append(@, ErrEvent(d, st))]
    /\ windowErrs' = IF InWindow(d)
                     THEN [windowErrs EXCEPT ![d] = Append(@, ErrEvent(d, st))]
                     ELSE windowErrs
    /\ UNCHANGED <<conn, onerror, openPc, openResult, endpoint, gathered>>
    /\ UNCHANGED <<sessionVars, callVars>>
    /\ UNCHANGED watchVars

\* After await asyncio.sleep(0.1): if err: raise ...ConnectionError(resource, err[0]).
OpenVerdict(s) ==
    IF err[s] /= <<>>
    THEN Raised(NejiFinderTuttiClientConnectionError(ResourceTag(s), err[s][1]))
    ELSE Returned(NoneVal)

\* The task ends; gather() hands the first exception to the caller at once and
\* returns once every task has returned.
open_check(s) ==
    /\ openPc[s] = "sleeping"
    /\ openPc' = [openPc EXCEPT ![s] = "done"]
    /\ openResult' = [openResult EXCEPT ![s] = OpenVerdict(s)]
    /\ IF pc = "gather" /\ s \in gathered
       THEN IF OpenVerdict(s).status = "raised"
            THEN Leave(OpenVerdict(s)) /\ gathered' = {}
            ELSE IF gathered = {s}
                 THEN Leave(Returned(NoneVal)) /\ gathered' = {}
                 ELSE gathered' = gathered \ {s} /\ UNCHANGED <<pc, outcome>>
       ELSE UNCHANGED <<pc, outcome, gathered>>
    /\ UNCHANGED <<conn, onerror, err, endpoint, windowErrs>>
    /\ UNCHANGED <<sessionVars, op, args, callSent, callDone, inflight, loc, excStep>>
    /\ UNCHANGED watchVars

\* close(): close_works(), then close_market().
close ==
    /\ Ready
    /\ Enter("close", NoArgs)
    /\ callSent' = <<>>
    /\ Leave(Returned(NoneVal))
    /\ conn' = [s \in Sides |-> "closed"]
    /\ UNCHANGED <<onerror, err, openPc, openResult, endpoint, windowErrs, gathered>>
    /\ UNCHANGED <<sessionVars, inflight>>
    /\ UNCHANGED watchVars


\* --------------------------------------------------------------- sessions
\* A call on a duct that is not connected raises instead of sending.
NotConnected == Exc("DuctError", <<"not connected">>)
\* The remote side answers a call with an error, or the call itself fails.
RemoteError == Exc("RemoteError", <<"call failed">>)
\* self.access_token before any sign_in: the attribute was never set.
NoAccessToken == Exc("AttributeError", <<"access_token">>)

\* hashlib.sha512(password.encode('ascii')).digest()
Sha512(password) == <<"sha512", password>>
\* sign_in_market's default access_token_lifetime: 60*60*24*7*1000.
DefaultLifetime == 604800000

WorksSignIn == Req("works", "SIGN_IN", [user_name |-> "admin", password |-> "admin"])
MarketSignIn ==
    Req("market", "SIGN_IN",
        [user_id |-> "requester1", password_hash |-> Sha512("requester1"),
         access_token_lifetime |-> DefaultLifetime])
SignInReq(s) == IF s = "works" THEN WorksSignIn ELSE MarketSignIn
Key(r) == <<r.side, r.event>>
AwaitSignIn(s) == IF s = "works" THEN "await_sign_in_works" ELSE "await_sign_in_market"

\* sign_in_works(**params) / sign_in_market(**params) called by themselves.
sign_in_side(s) ==
    /\ Ready
    /\ Enter(IF s = "works" THEN "sign_in_works" ELSE "sign_in_market", NoArgs)
    /\ IF conn[s] = "open"
       THEN /\ callSent' = <<SignInReq(s)>>
            /\ inflight' = inflight \cup {Key(SignInReq(s))}
            /\ pc' = AwaitSignIn(s)
            /\ outcome' = Running
       ELSE /\ callSent' = <<>>
            /\ Leave(Raised(NotConnected))
            /\ UNCHANGED inflight
    /\ UNCHANGED <<connVars, sessionVars>>
    /\ UNCHANGED watchVars

sign_in_works == sign_in_side("works")
sign_in_market == sign_in_side("market")

\* The sign-ins sign_in() has started when it first suspends.
SignInFirst == <<"works">>
\* Whether sign_in() goes on to the marketplace once Tutti.works has answered.
SignInGoesOnRegardless(worksOk) == TRUE
SignInGoesOn(worksOk) == worksOk

\* sign_in(works_params, market_params): await sign_in_works(**works_params) ...
sign_in ==
    /\ Ready
    /\ Enter("sign_in", NoArgs)
    /\ IF \A i \in 1..Len(SignInFirst) : conn[SignInFirst[i]] = "open"
       THEN /\ callSent' = [i \in 1..Len(SignInFirst) |-> SignInReq(SignInFirst[i])]
            /\ inflight' = inflight \cup {Key(SignInReq(SignInFirst[i])) : i \in 1..Len(SignInFirst)}
            /\ pc' = "await_sign_in_works"
            /\ outcome' = Running
       ELSE /\ callSent' = <<>>
            /\ Leave(Raised(NotConnected))
            /\ UNCHANGED inflight
    /\ UNCHANGED <<connVars, sessionVars>>
    /\ UNCHANGED watchVars

\* Tutti.works answers the sign-in: the collaborator stores the token, or raises.
\* In sign_in() the marketplace sign-in follows: ... await sign_in_market(**market_params).
works_sign_in_answer(ok) ==
    /\ pc = "await_sign_in_works"
    /\ <<"works", "SIGN_IN">> \in inflight
    /\ callDone' = Append(callDone, Ans("works", "SIGN_IN", ok, ""))
    /\ worksToken' = IF ok THEN "tokW" ELSE worksToken
    /\ signInDone' = [signInDone EXCEPT !["works"] = @ \/ ok]
    /\ IF op = "sign_in" /\ SignInGoesOn(ok)
       THEN IF conn["market"] = "open"
            THEN /\ callSent' = Append(callSent, MarketSignIn)
                 /\ inflight' = (inflight \ {<<"works", "SIGN_IN">>}) \cup {Key(MarketSignIn)}
                 /\ pc' = "await_sign_in_market"
                 /\ UNCHANGED outcome
            ELSE /\ Leave(Raised(NotConnected))
                 /\ inflight' = inflight \ {<<"works", "SIGN_IN">>}
                 /\ UNCHANGED callSent
       ELSE /\ Leave(IF ok THEN Returned(NoneVal) ELSE Raised(RemoteError))
            /\ inflight' = inflight \ {<<"works", "SIGN_IN">>}
            /\ UNCHANGED callSent
    /\ UNCHANGED <<connVars, marketToken, op, args, loc, excStep>>
    /\ UNCHANGED watchVars

\* Tutti.market answers the sign-in: self.access_token = data['body']['access_token'],
\* which raises when the answer carries no token.
market_sign_in_answer(ok) ==
    /\ pc = "await_sign_in_market"
    /\ <<"market", "SIGN_IN">> \in inflight
    /\ callDone' = Append(callDone, Ans("market", "SIGN_IN", ok, ""))
    /\ inflight' = inflight \ {<<"market", "SIGN_IN">>}
    /\ marketToken' = IF ok THEN "tokM" ELSE marketToken
    /\ signInDone' = [signInDone EXCEPT !["market"] = @ \/ ok]
    /\ Leave(IF ok THEN Returned(NoneVal) ELSE Raised(Exc("KeyError", <<"access_token">>)))
    /\ UNCHANGED <<connVars, worksToken, op, args, callSent, loc, excStep>>
    /\ UNCHANGED watchVars

\* sign_out(): await sign_out_market(), which reads self.access_token ...
sign_out ==
    /\ Ready
    /\ Enter("sign_out", NoArgs)
    /\ IF marketToken = "unset" \/ conn["market"] /= "open"
       THEN /\ callSent' = <<>>
            /\ Leave(Raised(IF marketToken = "unset" THEN NoAccessToken ELSE NotConnected))
            /\ UNCHANGED inflight
       ELSE /\ callSent' = <<Req("market", "SIGN_OUT", [access_token |-> marketToken])>>
            /\ inflight' = inflight \cup {<<"market", "SIGN_OUT">>}
            /\ pc' = "await_sign_out_market"
            /\ outcome' = Running
    /\ UNCHANGED <<connVars, sessionVars>>
    /\ UNCHANGED watchVars

\* ... then await sign_out_works(). The controller keeps its token.
market_sign_out_answer(ok) ==
    /\ pc = "await_sign_out_market"
    /\ callDone' = Append(callDone, Ans("market", "SIGN_OUT", ok, ""))
    /\ IF ok /\ conn["works"] = "open"
       THEN /\ callSent' = Append(callSent, Req("works", "SIGN_OUT", [access_token |-> worksToken]))
            /\ inflight' = (inflight \ {<<"market", "SIGN_OUT">>}) \cup {<<"works", "SIGN_OUT">>}
            /\ pc' = "await_sign_out_works"
            /\ UNCHANGED outcome
       ELSE /\ Leave(Raised(IF ok THEN NotConnected ELSE RemoteError))
            /\ inflight' = inflight \ {<<"market", "SIGN_OUT">>}
            /\ UNCHANGED callSent
    /\ UNCHANGED <<connVars, sessionVars, op, args, loc, excStep>>
    /\ UNCHANGED watchVars

\* Tutti.works answers the sign-out; the collaborator may forget its token.
works_sign_out_answer(ok, forget) ==
    /\ pc = "await_sign_out_works"
    /\ callDone' = Append(callDone, Ans("works", "SIGN_OUT", ok, ""))
    /\ inflight' = inflight \ {<<"works", "SIGN_OUT">>}
    /\ worksToken' = IF ok /\ forget THEN "None" ELSE worksToken
    /\ Leave(IF ok THEN Returned(NoneVal) ELSE Raised(RemoteError))
    /\ UNCHANGED <<connVars, marketToken, signInDone, op, args, callSent, loc, excStep>>
    /\ UNCHANGED watchVars


\* ------------------------------------------------- publish_tasks_to_market
ApsIds == {"aps-1", "aps-2"}
PpsIds == {"pps-1", "pps-2"}
SyncIds == {"s1"}
\* int(time.time()) when the nanotask is built.
Times == {9, 10}
\* create_nanotasks' fixed priority and num_assignable.
NanotaskPriority == 100
NumAssignable == 0

\* What the server can hold under a PPS parameter bag's keys.
BagValues ==
    [job_class_id : {PyAbsent, PyStr(<<"jc1">>)},
     num_job_assignments_max : {PyAbsent, PyNone, PyStr(<<>>), PyStr(<<"1", "2">>), PyStr(<<"x">>)},
     priority_score : {PyAbsent, PyStr(<<"5">>)},
     priorityScore : {PyAbsent, PyStr(<<>>), PyStr(<<"5">>), PyStr(<<" ", "-", "3">>), PyInt(7)}]

\* The answers to AUTOMATION_PARAMETER_SET_GET: the call raises, None, a record
\* whose content is empty, or a record holding the APS.
ApsAnswers ==
    {[raises |-> TRUE, present |-> FALSE, content |-> NoAps],
     [raises |-> FALSE, present |-> FALSE, content |-> NoAps],
     [raises |-> FALSE, present |-> TRUE, content |-> NoAps]}
    \cup {[raises |-> FALSE, present |-> TRUE,
           content |-> [found |-> TRUE, platform_parameter_set_id |-> q, project_name |-> "proj"]]
          : q \in PpsIds}
\* The answers to PLATFORM_PARAMETER_SET_GET, likewise; a PPS of another platform
\* is drawn with one bag.
PpsAnswers ==
    {[raises |-> TRUE, present |-> FALSE, content |-> NoPps],
     [raises |-> FALSE, present |-> FALSE, content |-> NoPps],
     [raises |-> FALSE, present |-> TRUE, content |-> NoPps],
     [raises |-> FALSE, present |-> TRUE,
      content |-> [found |-> TRUE, platform |-> "mturk", parameters |-> NoBag]]}
    \cup {[raises |-> FALSE, present |-> TRUE,
           content |-> [found |-> TRUE, platform |-> "market", parameters |-> b]]
          : b \in BagValues}

\* if data and data['content']: line 192.
ApsDefinedDataOnly(data) == data.present
ApsDefined(data) == data.present /\ data.content.found
\* f'Automation parameter set ID "{automation_parameter_set_id}" is not defined'
ApsNotDefined(id) == Exc("Exception", <<"Automation parameter set ID \"", id, "\" is not defined">>)
\* 'Platform parameter set ID "{}}" is not defined'.format(...): the format
\* string itself is malformed, and format() raises before any message is built.
PpsNotDefined(id) == Exc("ValueError", <<"Single '}' encountered in format string">>)
\* pps['platform'] != 'market': line 209.
NotForMarketUnchecked(pps) == pps.platform = ""
NotForMarket(pps) == pps.platform /= "market"
\* 'Platform parameter set ID "{}" is not set for market'.format(aps['platform_parameter_set_id'])
PpsNotForMarket(aps) ==
    Exc("Exception", <<"Platform parameter set ID \"", aps.platform_parameter_set_id,
                       "\" is not set for market">>)

\* int_or_none = lambda x: int(x) if x is not None and x!='' else None
IsNoneOrEmpty(x) == x.t = "none" \/ (x.t = "str" /\ x.s = <<>>)
int_or_none_raises(x) == ~IsNoneOrEmpty(x) /\ ~IntAccepts(x)
int_or_none(x) == IF IsNoneOrEmpty(x) THEN PyNone ELSE PyInt(IntOf(x))

\* The key of the bag the job's priority is read from: line 255.
PriorityKey == "priorityScore"

\* The first exception the evaluation of register_job's arguments raises
\* (lines 250-255, in order), NoExc when there is none.
JobArgsError(bag) ==
    IF bag["job_class_id"].t = "absent" THEN Exc("KeyError", <<"job_class_id">>)
    ELSE IF bag["num_job_assignments_max"].t = "absent"
         THEN Exc("KeyError", <<"num_job_assignments_max">>)
    ELSE IF int_or_none_raises(bag["num_job_assignments_max"])
         THEN Exc("ValueError", <<"invalid literal for int()">>)
    ELSE IF bag[PriorityKey].t = "absent" THEN Exc("KeyError", <<PriorityKey>>)
    ELSE IF int_or_none_raises(bag[PriorityKey])
         THEN Exc("ValueError", <<"invalid literal for int()">>)
    ELSE NoExc

\* The REGISTER_JOB request: register_job's payload built from lines 241-256.
RegisterJob(id, l) ==
    Req("market", "REGISTER_JOB",
        [access_token |-> marketToken,
         job_class_id |-> l.pps.parameters["job_class_id"],
         job_parameter |-> [nanotask_group_ids |-> <<l.ngid>>,
                            automation_parameter_set_id |-> id,
                            platform_parameter_set_id |-> l.aps.platform_parameter_set_id],
         description |-> <<"created at ">> \o FormatInt(l.time),
         num_job_assignments_max |-> int_or_none(l.pps.parameters["num_job_assignments_max"]),
         priority_score |-> int_or_none(l.pps.parameters[PriorityKey])])

\* The steps of the workflow the try block encloses: lines 247-266.
InTry(step) == step \in {8, 9}
\* except: traceback.print_exc() - and the method falls off its end.
except_all_reraise(e) == Raised(e)
except_all(e) == Returned(NoneVal)
\* How an exception raised in a step leaves publish_tasks_to_market.
Thrown(step, e) == IF InTry(step) THEN except_all(e) ELSE Raised(e)

job_result_swapped(res, ngid) == Returned(PairVal(res.body, ngid))
\* if res['success']: jid = res['body'] ... return ngid, jid
\* else: raise Error(...) - Error is no name of the module: a NameError.
job_result(res, ngid) ==
    IF res.success THEN Returned(PairVal(ngid, res.body))
    ELSE Thrown(9, Exc("NameError", <<"name 'Error' is not defined">>))

\* Step 1: the APS is asked for.
publish_tasks_to_market(id, sync) ==
    /\ Ready
    /\ Enter("publish_tasks_to_market", [NoArgs EXCEPT !.id = id, !.sync_id = sync])
    /\ IF conn["works"] = "open"
       THEN /\ callSent' = <<Req("works", "AUTOMATION_PARAMETER_SET_GET",
                                 [automation_parameter_set_id |-> id, access_token |-> worksToken])>>
            /\ inflight' = inflight \cup {<<"works", "AUTOMATION_PARAMETER_SET_GET">>}
            /\ pc' = "await_aps"
            /\ outcome' = Running
       ELSE /\ callSent' = <<>>
            /\ Leave(Raised(NotConnected))
            /\ UNCHANGED inflight
    /\ UNCHANGED <<connVars, sessionVars>>
    /\ UNCHANGED watchVars

\* Steps 1-2: the APS is there or the call fails; the PPS is asked for.
aps_answer(data) ==
    /\ pc = "await_aps"
    /\ callDone' = Append(callDone, Ans("works", "AUTOMATION_PARAMETER_SET_GET", ~data.raises,
                                        [present |-> data.present, content |-> data.content]))
    /\ IF ~data.raises /\ ApsDefined(data)
       THEN /\ loc' = [loc EXCEPT !.aps = data.content]
            /\ callSent' = Append(callSent,
                   Req("works", "PLATFORM_PARAMETER_SET_GET",
                       [platform_parameter_set_id |-> data.content.platform_parameter_set_id,
                        access_token |-> worksToken]))
            /\ inflight' = (inflight \ {<<"works", "AUTOMATION_PARAMETER_SET_GET">>})
                           \cup {<<"works", "PLATFORM_PARAMETER_SET_GET">>}
            /\ pc' = "await_pps"
            /\ UNCHANGED <<outcome, excStep>>
       ELSE /\ Leave(Raised(IF data.raises THEN RemoteError ELSE ApsNotDefined(args.id)))
            /\ excStep' = 1
            /\ inflight' = inflight \ {<<"works", "AUTOMATION_PARAMETER_SET_GET">>}
            /\ UNCHANGED <<loc, callSent>>
    /\ UNCHANGED <<connVars, sessionVars, op, args>>
    /\ UNCHANGED watchVars

\* Steps 2-5: the PPS is there and is the marketplace's, or the call fails; the
\* one nanotask is built and its creation asked for.
CreateNanotasks(t) ==
    Req("works", "NANOTASKS_CREATE",
        [project_name |-> loc.aps.project_name, template_name |-> "NejiFinderApp",
         nanotasks |-> <<[id |-> FormatInt(t), props |-> [sync_id |-> args.sync_id]]>>,
         tag |-> "", priority |-> NanotaskPriority, num_assignable |-> NumAssignable])

PpsError(data) ==
    IF data.raises THEN RemoteError
    ELSE IF ~data.present THEN PpsNotDefined(loc.aps.platform_parameter_set_id)
    ELSE IF ~data.content.found THEN Exc("TypeError", <<"'NoneType' object is not subscriptable">>)
    ELSE IF NotForMarket(data.content) THEN PpsNotForMarket(loc.aps)
    ELSE NoExc

pps_answer(data, t) ==
    /\ pc = "await_pps"
    /\ callDone' = Append(callDone, Ans("works", "PLATFORM_PARAMETER_SET_GET", ~data.raises,
                                        [present |-> data.present, content |-> data.content]))
    /\ IF PpsError(data) = NoExc
       THEN /\ loc' = [loc EXCEPT !.pps = data.content, !.time = t]
            /\ callSent' = Append(callSent, CreateNanotasks(t))
            /\ inflight' = (inflight \ {<<"works", "PLATFORM_PARAMETER_SET_GET">>})
                           \cup {<<"works", "NANOTASKS_CREATE">>}
            /\ pc' = "await_nanotasks"
            /\ UNCHANGED <<outcome, excStep>>
       ELSE /\ Leave(Raised(PpsError(data)))
            /\ excStep' = IF data.present /\ data.content.found THEN 3 ELSE 2
            /\ inflight' = inflight \ {<<"works", "PLATFORM_PARAMETER_SET_GET">>}
            /\ loc' = [loc EXCEPT !.pps = IF data.raises \/ ~data.present THEN NoPps ELSE data.content]
            /\ UNCHANGED callSent
    /\ UNCHANGED <<connVars, sessionVars, op, args>>
    /\ UNCHANGED watchVars


NanotaskIdLists == {<<"n1">>}
GroupIds == {"g1"}
JobIds == {"j1", "j2"}

\* Steps 5-6: the nanotask IDs come back, the group is asked for; an exception
\* here is outside the try block.
nanotasks_answer(ok, nids) ==
    /\ pc = "await_nanotasks"
    /\ callDone' = Append(callDone, Ans("works", "NANOTASKS_CREATE", ok, nids))
    /\ IF ok
       THEN /\ loc' = [loc EXCEPT !.nids = nids]
            /\ callSent' = Append(callSent,
                   Req("works", "NANOTASK_GROUP_CREATE",
                       [name |-> FormatInt(loc.time), nanotask_ids |-> nids,
                        project_name |-> loc.aps.project_name,
                        template_name |-> "NejiFinderApp"]))
            /\ inflight' = (inflight \ {<<"works", "NANOTASKS_CREATE">>})
                           \cup {<<"works", "NANOTASK_GROUP_CREATE">>}
            /\ pc' = "await_group"
            /\ UNCHANGED <<outcome, excStep>>
       ELSE /\ Leave(Thrown(5, RemoteError))
            /\ excStep' = 5
            /\ inflight' = inflight \ {<<"works", "NANOTASKS_CREATE">>}
            /\ UNCHANGED <<loc, callSent>>
    /\ UNCHANGED <<connVars, sessionVars, op, args>>
    /\ UNCHANGED watchVars

\* The exception that keeps register_job from sending its request, NoExc when
\* it sends: the arguments' own, then self.access_token, then the duct.
RegisterError(bag) ==
    IF JobArgsError(bag) /= NoExc THEN JobArgsError(bag)
    ELSE IF marketToken = "unset" THEN NoAccessToken
    ELSE IF conn["market"] /= "open" THEN NotConnected
    ELSE NoExc

\* Steps 6-8: the group ID comes back; the job parameter is built and, inside
\* the try block, register_job's arguments are evaluated and the job asked for.
group_answer(ok, ngid) ==
    /\ pc = "await_group"
    /\ callDone' = Append(callDone, Ans("works", "NANOTASK_GROUP_CREATE", ok, ngid))
    /\ IF ~ok
       THEN /\ Leave(Thrown(6, RemoteError))
            /\ excStep' = 6
            /\ inflight' = inflight \ {<<"works", "NANOTASK_GROUP_CREATE">>}
            /\ UNCHANGED <<loc, callSent>>
       ELSE /\ loc' = [loc EXCEPT !.ngid = ngid]
            /\ IF RegisterError(loc.pps.parameters) = NoExc
               THEN /\ callSent' = Append(callSent, RegisterJob(args.id, [loc EXCEPT !.ngid = ngid]))
                    /\ inflight' = (inflight \ {<<"works", "NANOTASK_GROUP_CREATE">>})
                                   \cup {<<"market", "REGISTER_JOB">>}
                    /\ pc' = "await_job"
                    /\ UNCHANGED <<outcome, excStep>>
               ELSE /\ Leave(Thrown(8, RegisterError(loc.pps.parameters)))
                    /\ excStep' = 8
                    /\ inflight' = inflight \ {<<"works", "NANOTASK_GROUP_CREATE">>}
                    /\ UNCHANGED callSent
    /\ UNCHANGED <<connVars, sessionVars, op, args>>
    /\ UNCHANGED watchVars

\* Steps 8-9: register_job's answer, or its exception.
JobAnswers ==
    {[raises |-> TRUE, success |-> FALSE, body |-> ""],
     [raises |-> FALSE, success |-> FALSE, body |-> "error"]}
    \cup {[raises |-> FALSE, success |-> TRUE, body |-> j] : j \in JobIds}

job_answer(res) ==
    /\ pc = "await_job"
    /\ callDone' = Append(callDone, Ans("market", "REGISTER_JOB", ~res.raises,
                                        [success |-> res.success, body |-> res.body]))
    /\ inflight' = inflight \ {<<"market", "REGISTER_JOB">>}
    /\ loc' = [loc EXCEPT !.res = [success |-> res.success, body |-> res.body]]
    /\ Leave(IF res.raises THEN Thrown(8, RemoteError) ELSE job_result(res, loc.ngid))
    /\ excStep' = IF res.raises THEN 8 ELSE IF res.success THEN 0 ELSE 9
    /\ UNCHANGED <<connVars, sessionVars, op, args, callSent>>
    /\ UNCHANGED watchVars

\* ------------------------------------------------ watch_responses_for_tasks
WatchTopic == "watch_responses_for_automation_parameter_set"
\* last_watch_id: str = '+'
DefaultLastWatchId == <<"+">>
\* The cursors a caller passes: none, the sentinels, a timestamp, a full Watch ID.
LastWatchIds ==
    {PyNone, PyStr(<<"+">>), PyStr(<<"0">>), PyStr(<<"1">>), PyStr(<<"1", "-", "1">>)}

\* The Watch ID of the k-th entry of the stream:
\* <millisecond timestamp>-<sequence number from 0>, two entries a millisecond.
EntryId(k) == [ms |-> (k + 1) \div 2, seq |-> (k + 1) % 2]
FormatId(id) == FormatInt(id.ms) \o <<"-">> \o FormatInt(id.seq)
Entry(k) == [last_watch_id |-> FormatId(EntryId(k)), id |-> EntryId(k), data |-> k]

\* How the server reads a cursor: '+' is past every entry, a bare timestamp is
\* that millisecond's start, '0' is the start of the history.
DashAt(s) == IF \E i \in 1..Len(s) : s[i] = "-" THEN CHOOSE i \in 1..Len(s) : s[i] = "-" ELSE 0
IsPlus(s) == s = <<"+">>
CursorOf(s) ==
    IF DashAt(s) = 0 THEN [ms |-> DigitsValue(s), seq |-> 0 - 1]
    ELSE [ms |-> DigitsValue(SubSeq(s, 1, DashAt(s) - 1)),
          seq |-> DigitsValue(SubSeq(s, DashAt(s) + 1, Len(s)))]
IdAfter(id, c) == id.ms > c.ms \/ (id.ms = c.ms /\ id.seq > c.seq)
\* The entries of the stream later than the cursor, oldest first.
RECURSIVE Later(_, _)
Later(q, s) ==
    IF q = <<>> \/ IsPlus(s) THEN <<>>
    ELSE IF IdAfter(Head(q).id, CursorOf(s)) THEN q
    ELSE Later(Tail(q), s)

\* What watch_responses_for_tasks has done when it first suspends, in order:
\* resource.on(topic, handler), then ...send(...).
WatchFirstSendOnly == <<"send">>
WatchFirst == <<"on", "send">>

WatchRequest(id, lw) ==
    Req("works", WatchTopic,
        [automation_parameter_set_id |-> id,
         last_watch_id |-> IF lw = PyNone THEN DefaultLastWatchId ELSE lw.s,
         exclusive |-> TRUE])

watch_responses_for_tasks(id, lw) ==
    /\ Ready
    /\ handlers = {}
    /\ Enter("watch_responses_for_tasks", [NoArgs EXCEPT !.id = id, !.last_watch_id = lw])
    /\ handlers' = IF "on" \in Range(WatchFirst) THEN handlers \cup {"handler"} ELSE handlers
    /\ IF conn["works"] = "open"
       THEN /\ callSent' = <<WatchRequest(id, lw)>>
            /\ inflight' = inflight \cup {<<"works", WatchTopic>>}
            /\ pc' = "await_watch_send"
            /\ outcome' = Running
       ELSE /\ callSent' = <<>>
            /\ Leave(Raised(NotConnected))
            /\ UNCHANGED inflight
    /\ UNCHANGED <<connVars, sessionVars, subscribed, stream, chan, pushed, delivered>>

\* await ...send(...) comes back, and the method ends.
watch_sent ==
    /\ pc = "await_watch_send"
    /\ handlers' = handlers \cup {"handler"}
    /\ Leave(Returned(NoneVal))
    /\ UNCHANGED <<connVars, sessionVars, op, args, callSent, callDone, inflight, loc, excStep>>
    /\ UNCHANGED <<subscribed, stream, chan, pushed, delivered>>

\* The server takes the request: it replays the entries later than the cursor
\* and goes on pushing.
server_watch ==
    /\ <<"works", WatchTopic>> \in inflight
    /\ inflight' = inflight \ {<<"works", WatchTopic>>}
    /\ subscribed' = TRUE
    /\ chan' = chan \o Later(stream, SentOf("works", WatchTopic).p.last_watch_id)
    /\ pushed' = pushed \o Later(stream, SentOf("works", WatchTopic).p.last_watch_id)
    /\ UNCHANGED <<connVars, sessionVars, pc, op, args, outcome, callSent, callDone, loc, excStep>>
    /\ UNCHANGED <<handlers, stream, delivered>>

\* A worker answers: a new entry at the end of the stream, pushed to the watcher.
server_append ==
    /\ Len(stream) < MaxStream
    /\ stream' = Append(stream, Entry(Len(stream) + 1))
    /\ chan' = IF subscribed THEN Append(chan, Entry(Len(stream) + 1)) ELSE chan
    /\ pushed' = IF subscribed THEN Append(pushed, Entry(Len(stream) + 1)) ELSE pushed
    /\ UNCHANGED <<connVars, sessionVars, callVars, handlers, subscribed, delivered>>

\* A pushed entry reaches the client: the resource hands it to the handlers
\* registered for the topic, and to nobody when there is none.
push_arrives ==
    /\ chan /= <<>>
    /\ chan' = Tail(chan)
    /\ delivered' = IF "handler" \in handlers THEN Append(delivered, Head(chan)) ELSE delivered
    /\ UNCHANGED <<connVars, sessionVars, callVars, handlers, subscribed, stream, pushed>>

\* ---------------------------------------------------------- specification
vars == <<conn, onerror, err, openPc, openResult, endpoint, windowErrs, gathered,
          worksToken, marketToken, signInDone,
          pc, op, args, outcome, callSent, callDone, inflight, loc, excStep,
          handlers, subscribed, stream, chan, pushed, delivered>>

\* NejiFinderTuttiClient(): two fresh collaborators, nothing opened, nobody signed in.
\* TuttiClient() holds account_info with access_token None until a sign-in;
\* TuttiMarketController(duct) has no access_token attribute until sign_in sets it.
Init ==
    /\ conn = [s \in Sides |-> "closed"]
    /\ onerror = [d \in Sides |-> "default"]
    /\ err = [s \in Sides |-> <<>>]
    /\ openPc = [s \in Sides |-> "idle"]
    /\ openResult = [s \in Sides |-> Running]
    /\ endpoint = [s \in Sides |-> <<>>]
    /\ windowErrs = [s \in Sides |-> <<>>]
    /\ gathered = {}
    /\ worksToken = "None"
    /\ marketToken = "unset"
    /\ signInDone = [s \in Sides |-> FALSE]
    /\ pc = "idle"
    /\ op = ""
    /\ args = NoArgs
    /\ outcome = Running
    /\ callSent = <<>>
    /\ callDone = <<>>
    /\ inflight = {}
    /\ loc = NoLoc
    /\ excStep = 0
    /\ handlers = {}
    /\ subscribed = FALSE
    /\ stream = <<>>
    /\ chan = <<>>
    /\ pushed = <<>>
    /\ delivered = <<>>

\* The facade's calls and the answers of the two servers; the ducts connect or
\* fail to, and report no error to their listeners.
Next ==
    \/ \E wh \in HostArgs, mh \in HostArgs : open(wh, mh)
    \/ \E h \in {<<>>, <<"h">>, <<"h", "/">>} : open_works(h)
    \/ \E h \in {<<>>, <<"h">>, <<"h", "/">>} : open_market(h)
    \/ \E s \in Sides, ok \in BOOLEAN : duct_open(s, ok)
    \/ \E s \in Sides : open_check(s)
    \/ close
    \/ sign_in
    \/ sign_in_works
    \/ sign_in_market
    \/ \E ok \in BOOLEAN : works_sign_in_answer(ok)
    \/ \E ok \in BOOLEAN : market_sign_in_answer(ok)
    \/ sign_out
    \/ \E ok \in BOOLEAN : market_sign_out_answer(ok)
    \/ \E ok \in BOOLEAN, forget \in BOOLEAN : works_sign_out_answer(ok, forget)
    \/ \E id \in ApsIds, sync \in SyncIds : publish_tasks_to_market(id, sync)
    \/ \E data \in ApsAnswers : aps_answer(data)
    \/ \E data \in PpsAnswers, t \in Times : pps_answer(data, t)
    \/ \E ok \in BOOLEAN, nids \in NanotaskIdLists : nanotasks_answer(ok, nids)
    \/ \E ok \in BOOLEAN, ngid \in GroupIds : group_answer(ok, ngid)
    \/ \E res \in JobAnswers : job_answer(res)

Spec == Init /\ [][Next]_vars

\* The connection calls alone, with ducts that report errors whenever they like.
NextOpen ==
    \/ \E wh \in HostArgs, mh \in HostArgs : open(wh, mh)
    \/ \E h \in {<<>>, <<"h">>, <<"h", "/">>} : open_works(h)
    \/ \E h \in {<<>>, <<"h">>, <<"h", "/">>} : open_market(h)
    \/ \E s \in Sides, ok \in BOOLEAN : duct_open(s, ok)
    \/ \E d \in Sides, st \in ErrStates : on_error(d, st)
    \/ \E s \in Sides : open_check(s)
    \/ close

SpecOpen == Init /\ [][NextOpen]_vars

\* A client that has opened Tutti.works and signed in to it, and a stream that
\* already holds any number of entries.
InitWatch ==
    /\ conn = [s \in Sides |-> IF s = "works" THEN "open" ELSE "closed"]
    /\ onerror = [d \in Sides |-> IF d = "works" THEN "works" ELSE "default"]
    /\ err = [s \in Sides |-> <<>>]
    /\ openPc = [s \in Sides |-> IF s = "works" THEN "done" ELSE "idle"]
    /\ openResult = [s \in Sides |-> IF s = "works" THEN Returned(NoneVal) ELSE Running]
    /\ endpoint = [s \in Sides |-> IF s = "works" THEN WsdUrl(<<"h">>) ELSE <<>>]
    /\ windowErrs = [s \in Sides |-> <<>>]
    /\ gathered = {}
    /\ worksToken = "tokW"
    /\ marketToken = "unset"
    /\ signInDone = [s \in Sides |-> s = "works"]
    /\ pc = "idle"
    /\ op = ""
    /\ args = NoArgs
    /\ outcome = Running
    /\ callSent = <<>>
    /\ callDone = <<>>
    /\ inflight = {}
    /\ loc = NoLoc
    /\ excStep = 0
    /\ handlers = {}
    /\ subscribed = FALSE
    /\ \E n \in 0..MaxStream : stream = [k \in 1..n |-> Entry(k)]
    /\ chan = <<>>
    /\ pushed = <<>>
    /\ delivered = <<>>

NextWatch ==
    \/ \E id \in ApsIds, lw \in LastWatchIds : watch_responses_for_tasks(id, lw)
    \/ watch_sent
    \/ server_watch
    \/ server_append
    \/ push_arrives

SpecWatch == InitWatch /\ [][NextWatch]_vars

\* ------------------------------------------------------------- the logs
InPublish == op = "publish_tasks_to_market"
PublishEnded == InPublish /\ pc = "finished"

\* register_job has answered with success = true / success = false.
JobAccepted ==
    /\ HasAnswer("market", "REGISTER_JOB")
    /\ AnswerOf("market", "REGISTER_JOB").ok
    /\ AnswerOf("market", "REGISTER_JOB").v.success
JobRefused ==
    /\ HasAnswer("market", "REGISTER_JOB")
    /\ AnswerOf("market", "REGISTER_JOB").ok
    /\ ~AnswerOf("market", "REGISTER_JOB").v.success

\* The PPS the server answered with.
FetchedPps == AnswerOf("works", "PLATFORM_PARAMETER_SET_GET").v.content
PpsFetched ==
    /\ HasAnswer("works", "PLATFORM_PARAMETER_SET_GET")
    /\ AnswerOf("works", "PLATFORM_PARAMETER_SET_GET").ok
    /\ AnswerOf("works", "PLATFORM_PARAMETER_SET_GET").v.present
    /\ FetchedPps.found

\* -------------------------------------------------------------- the claims

\* C1: when publish_tasks_to_market has got as far as a register_job answer with
\* success = true (the APS and PPS found, the platform "market", the bag's keys
\* there, nanotask and group created), it returns the pair (the ID the group
\* creation answered, the body of that register_job answer).
C1_PublishReturnsGroupAndJob ==
    (PublishEnded /\ JobAccepted) =>
        outcome = Returned(PairVal(AnswerOf("works", "NANOTASK_GROUP_CREATE").v,
                                   AnswerOf("market", "REGISTER_JOB").v.body))
C1_Witness ==
    /\ PublishEnded
    /\ JobAccepted
    /\ FetchedPps.parameters["job_class_id"].t /= "absent"
    /\ FetchedPps.parameters["num_job_assignments_max"].t /= "absent"
    /\ FetchedPps.parameters["priority_score"].t /= "absent"
    /\ outcome.val = PairVal("g1", "j2")

\* C2: when register_job answers with success = false, publish_tasks_to_market
\* ends with a "failed to create job" error raised to its caller.
C2_RefusedJobRaises ==
    (PublishEnded /\ JobRefused) =>
        (outcome.status = "raised" /\ "Failed to create a job" \in Range(outcome.exc.msg))

\* C3: when the APS fetch answers nothing, or an empty content,
\* publish_tasks_to_market ends with an error naming the APS ID it was given, and
\* the APS fetch is the only request it has sent.
ApsAbsent ==
    /\ HasAnswer("works", "AUTOMATION_PARAMETER_SET_GET")
    /\ AnswerOf("works", "AUTOMATION_PARAMETER_SET_GET").ok
    /\ \/ ~AnswerOf("works", "AUTOMATION_PARAMETER_SET_GET").v.present
       \/ ~AnswerOf("works", "AUTOMATION_PARAMETER_SET_GET").v.content.found
C3_MissingApsFailsFirst ==
    (InPublish /\ ApsAbsent) =>
        /\ pc = "finished"
        /\ outcome.status = "raised"
        /\ args.id \in Range(outcome.exc.msg)
        /\ Len(callSent) = 1
        /\ callSent[1].event = "AUTOMATION_PARAMETER_SET_GET"
C3_Witness ==
    /\ InPublish
    /\ ApsAbsent
    /\ AnswerOf("works", "AUTOMATION_PARAMETER_SET_GET").v.present
    /\ args.id = "aps-2"
    /\ outcome.status = "raised"

\* C4: when the fetched PPS has a platform other than "market",
\* publish_tasks_to_market ends with an error naming the PPS ID, and the two
\* fetches are the only requests it has sent: no nanotask, group or job.
PpsOfOtherPlatform == PpsFetched /\ FetchedPps.platform /= "market"
C4_OtherPlatformFailsFirst ==
    (InPublish /\ PpsOfOtherPlatform) =>
        /\ pc = "finished"
        /\ outcome.status = "raised"
        /\ SentOf("works", "PLATFORM_PARAMETER_SET_GET").p.platform_parameter_set_id
               \in Range(outcome.exc.msg)
        /\ Len(callSent) = 2
        /\ ~HasSent("works", "NANOTASKS_CREATE")
        /\ ~HasSent("works", "NANOTASK_GROUP_CREATE")
        /\ ~HasSent("market", "REGISTER_JOB")
C4_Witness ==
    /\ InPublish
    /\ PpsOfOtherPlatform
    /\ outcome.status = "raised"
    /\ "pps-2" \in Range(outcome.exc.msg)

\* C5: in sign_in(), the two sign-ins are never in flight together, the
\* marketplace SIGN_IN is sent only after the Tutti.works sign-in has completed
\* with success, and after a failed Tutti.works sign-in it is never sent.
WorksSignInEnded == HasAnswer("works", "SIGN_IN")
C5_SignInInOrder ==
    op = "sign_in" =>
        /\ ~({<<"works", "SIGN_IN">>, <<"market", "SIGN_IN">>} \subseteq inflight)
        /\ HasSent("market", "SIGN_IN") =>
               (WorksSignInEnded /\ AnswerOf("works", "SIGN_IN").ok)
        /\ (WorksSignInEnded /\ ~AnswerOf("works", "SIGN_IN").ok) =>
               (~HasSent("market", "SIGN_IN") /\ pc = "finished" /\ outcome.status = "raised")
C5_Witness ==
    /\ op = "sign_in"
    /\ pc = "await_sign_in_market"
    /\ <<"market", "SIGN_IN">> \in inflight
    /\ WorksSignInEnded

\* C7: the bag (job_class_id = "jc1", num_job_assignments_max = "",
\* priority_score = "5") yields a REGISTER_JOB request with
\* num_job_assignments_max = None and priority_score = 5.
ScenarioBag ==
    [job_class_id |-> PyStr(<<"jc1">>), num_job_assignments_max |-> PyStr(<<>>),
     priority_score |-> PyStr(<<"5">>), priorityScore |-> PyAbsent]
C7_ScenarioRegistersJob ==
    (/\ PublishEnded
     /\ PpsFetched
     /\ FetchedPps.platform = "market"
     /\ FetchedPps.parameters = ScenarioBag
     /\ HasAnswer("works", "NANOTASK_GROUP_CREATE")
     /\ AnswerOf("works", "NANOTASK_GROUP_CREATE").ok
     /\ marketToken /= "unset"
     /\ conn["market"] = "open") =>
        /\ HasSent("market", "REGISTER_JOB")
        /\ SentOf("market", "REGISTER_JOB").p.job_class_id = PyStr(<<"jc1">>)
        /\ SentOf("market", "REGISTER_JOB").p.num_job_assignments_max = PyNone
        /\ SentOf("market", "REGISTER_JOB").p.priority_score = PyInt(5)

\* C8: no request that carries an access token has been sent on a side before a
\* sign-in for that side has completed.
CarriesToken(r) ==
    \/ r.side = "market" /\ r.event \in {"REGISTER_JOB", "SIGN_OUT"}
    \/ r.side = "works" /\ r.event \in {"AUTOMATION_PARAMETER_SET_GET",
                                        "PLATFORM_PARAMETER_SET_GET", "NANOTASKS_CREATE"}
C8_NoTokenRequestBeforeSignIn ==
    \A i \in DOMAIN callSent : CarriesToken(callSent[i]) => signInDone[callSent[i].side]

\* C10 as stated: an exception raised in any of steps 4 to 9 is swallowed, and
\* publish_tasks_to_market returns None.
C10_AnyStepSwallowed ==
    (PublishEnded /\ excStep \in 4..9) => outcome = Returned(NoneVal)
\* C10 as amended: an exception raised in steps 8 or 9 (the evaluation of
\* register_job's arguments, register_job, the check of its answer) is swallowed:
\* the call returns None, the nanotask and the group it created stay, and nothing
\* is sent after; an exception raised in steps 5 or 6 reaches the caller.
C10_TryStepsSwallowed ==
    PublishEnded =>
        /\ excStep \in {8, 9} =>
               /\ outcome = Returned(NoneVal)
               /\ AnswerOf("works", "NANOTASKS_CREATE").ok
               /\ AnswerOf("works", "NANOTASK_GROUP_CREATE").ok
               /\ callSent[Len(callSent)].event \in {"NANOTASK_GROUP_CREATE", "REGISTER_JOB"}
        /\ excStep \in {5, 6} => outcome = Raised(RemoteError)
C10_Witness ==
    /\ PublishEnded
    /\ excStep = 9
    /\ outcome = Returned(NoneVal)
    /\ JobRefused

WatchSent == op = "watch_responses_for_tasks" /\ HasSent("works", WatchTopic)
=============================================================================
